---- MODULE Spec2Model ----
(***************************************************************************)
(* Model of audio_transcriber.py: the batch that discovers audio files,    *)
(* transcribes each one with Whisper and writes two markdown reports,      *)
(* <stem>.md and <stem>_accurate.md, skipping files whose reports exist.   *)
(*                                                                         *)
(* Strings of the program are TLA+ strings.  The module is ASCII, so the   *)
(* Cyrillic literals of the source are transliterated: the unit letters of *)
(* format_duration are "ch" (hours), "m" (minutes), "s" (seconds), and the *)
(* word for "unknown" is "Neizvestno".  A quotient a / b of the source is  *)
(* rendered exactly, as the text "a/b".                                    *)
(***************************************************************************)
EXTENDS Integers, Sequences, FiniteSets, TLC

\* ------------------------------------------------------------------ bounds
\* Largest number of audio files in the directory.
MaxFiles == 2
\* Number of consecutive runs of main over the same directory.
MaxRuns == 2
\* Largest whole number of seconds given to format_duration.
MaxSeconds == 7325
\* Largest number of segments of a transcription result that is rendered.
MaxSegments == 2

\* --------------------------------------------------------- the directory
\* get_audio_files: the patterns, in the order they are globbed.
audio_extensions == <<".mp3", ".wav", ".m4a", ".flac", ".ogg", ".wma", ".aac">>

\* The audio files a directory may hold: a file name is stem \o ext.  Two
\* files share the stem "a", and the stem "a_accurate" is the stem "a"
\* followed by the suffix of a detailed report.
AudioUniverse ==
    { [stem |-> "a", ext |-> ".mp3"],
      [stem |-> "a", ext |-> ".wav"],
      [stem |-> "a_accurate", ext |-> ".mp3"],
      [stem |-> "b", ext |-> ".mp3"] }

Name(audio_file) == audio_file.stem \o audio_file.ext

\* Path(audio_file).stem: the name without its last suffix.
Stem(audio_file) == audio_file.stem

ExtIndex(ext) == CHOOSE k \in 1..Len(audio_extensions) : audio_extensions[k] = ext

\* get_audio_files: every file once, grouped by pattern in the order of
\* audio_extensions; glob fixes no order inside one pattern.
get_audio_files(dir) ==
    { s \in [1..Cardinality(dir) -> dir] :
        /\ \A j, k \in 1..Cardinality(dir) : j # k => s[j] # s[k]
        /\ \A j, k \in 1..Cardinality(dir) :
              j < k => ExtIndex(s[j].ext) <= ExtIndex(s[k].ext) }

\* ------------------------------------------------------- format_duration
format_duration_minutes_not_reduced(seconds) ==
    LET hours == seconds \div 3600
        minutes == seconds \div 60
        secs == seconds % 60
    IN  IF hours > 0
        THEN ToString(hours) \o "ch " \o ToString(minutes) \o "m " \o ToString(secs) \o "s"
        ELSE IF minutes > 0
             THEN ToString(minutes) \o "m " \o ToString(secs) \o "s"
             ELSE ToString(secs) \o "s"

format_duration(seconds) ==
    LET hours == seconds \div 3600
        minutes == (seconds % 3600) \div 60
        secs == seconds % 60
    IN  IF hours > 0
        THEN ToString(hours) \o "ch " \o ToString(minutes) \o "m " \o ToString(secs) \o "s"
        ELSE IF minutes > 0
             THEN ToString(minutes) \o "m " \o ToString(secs) \o "s"
             ELSE ToString(secs) \o "s"

\* ------------------------------------------------- transcription results
\* A result of whisper.transcribe is a dict; a has_ field says whether the
\* key is present.  result.get(key, default) reads the value or the default.
Segment(end, has_avg_logprob, avg_logprob) ==
    [start |-> 0, end |-> end, text |-> "hi",
     has_avg_logprob |-> has_avg_logprob, avg_logprob |-> avg_logprob]

Result(has_text, text, has_language, has_segments, segments) ==
    [has_text |-> has_text, text |-> text,
     has_language |-> has_language, language |-> "ru",
     has_segments |-> has_segments, segments |-> segments]

\* str.strip on the transcripts of the model.
Strip(text) == IF text = " hi " THEN "hi" ELSE text

\* result.get('segments', default)
GetSegments(result, default) == IF result.has_segments THEN result.segments ELSE default

\* s.get('avg_logprob', 0)
GetAvgLogprob(s) == IF s.has_avg_logprob THEN s.avg_logprob ELSE 0

RECURSIVE SumAvgLogprob(_)
SumAvgLogprob(segments) ==
    IF segments = <<>> THEN 0
    ELSE GetAvgLogprob(Head(segments)) + SumAvgLogprob(Tail(segments))

\* a / b of the source: ZeroDivisionError when b = 0.
Divide(a, b) ==
    IF b = 0 THEN [raised |-> TRUE, text |-> "ZeroDivisionError"]
    ELSE [raised |-> FALSE, text |-> ToString(a) \o "/" \o ToString(b)]

\* The "technical information" lines with the conditionals dropped.
TechnicalInfo_unguarded(result) ==
    LET segs == GetSegments(result, <<>>)
        q == Divide(SumAvgLogprob(segs), Len(segs))
    IN  [raised |-> q.raised,
         duration |-> IF segs # <<>> THEN format_duration(segs[Len(segs)].end)
                      ELSE format_duration(0),
         count |-> Len(segs),
         confidence |-> q.text]

\* create_detailed_markdown, lines 165-167: total duration, number of
\* segments and mean confidence.
TechnicalInfo(result) ==
    LET segs == GetSegments(result, <<>>)
        truthy == segs # <<>>
        q == IF truthy THEN Divide(SumAvgLogprob(segs), Len(segs))
             ELSE [raised |-> FALSE, text |-> "Neizvestno"]
    IN  [raised |-> q.raised,
         duration |-> IF truthy THEN format_duration(segs[Len(segs)].end)
                      ELSE "Neizvestno",
         count |-> Len(segs),
         confidence |-> q.text]

\* -------------------------------------------------------- the file system
\* fs maps the name of every existing report file to its content.  A content
\* is a record: what was rendered, from which audio file and which result.
Content(kind, audio_file, text, language, tech) ==
    [kind |-> kind, audio_file |-> audio_file, text |-> text, language |-> language,
     duration |-> tech.duration, count |-> tech.count, confidence |-> tech.confidence]

NoTech == [duration |-> "", count |-> 0, confidence |-> ""]

\* A report that was in the directory before the first run.
OldContent == Content("old", "", "", "", NoTech)

\* What open(md_file, 'w') leaves behind when the write then fails.
TruncatedContent == Content("truncated", "", "", "", NoTech)

\* os.path.exists
exists(fs, filename) == filename \in DOMAIN fs

\* with open(md_file, 'w') as f: f.write(content).  io is what the file
\* system does: "ok"; "denied" (open raises, nothing is created); "full"
\* (the file is created, the write raises).
WriteFile(fs, md_file, content, io) ==
    IF io = "denied" THEN fs
    ELSE [n \in DOMAIN fs \cup {md_file} |->
            IF n = md_file THEN (IF io = "ok" THEN content ELSE TruncatedContent)
            ELSE fs[n]]

\* datetime.datetime.now().strftime("%Y%m%d_%H%M%S")
Now == "20250101_120000"

RECURSIVE CounterLoop(_, _, _, _, _)
CounterLoop(fs, base_name, extension, filename, counter) ==
    IF exists(fs, filename)
    THEN CounterLoop(fs, base_name, extension,
                     base_name \o "_" \o ToString(counter) \o extension, counter + 1)
    ELSE filename

\* create_smart_filename with add_timestamp left at its default, True.
create_smart_filename_timestamped(fs, base_name, extension, add_timestamp) ==
    base_name \o "_" \o Now \o extension

create_smart_filename(fs, base_name, extension, add_timestamp) ==
    IF add_timestamp
    THEN base_name \o "_" \o Now \o extension
    ELSE CounterLoop(fs, base_name, extension, base_name \o extension, 1)

\* create_simple_markdown: [raised, fs, md_file].  result['text'] raises
\* KeyError, before the file is opened, when the result has no text.
create_simple_markdown(fs, audio_file, result, io) ==
    LET base_name == Stem(audio_file)
        md_file == create_smart_filename(fs, base_name, ".md", FALSE)
        content == Content("simple", Name(audio_file), Strip(result.text), "", NoTech)
    IN  IF ~result.has_text
        THEN [raised |-> TRUE, fs |-> fs, md_file |-> md_file]
        ELSE [raised |-> io # "ok", fs |-> WriteFile(fs, md_file, content, io),
              md_file |-> md_file]

\* create_detailed_markdown: [raised, fs, md_file].  stat_ok: os.path.getsize
\* of the audio file succeeds.
create_detailed_markdown(fs, audio_file, result, stat_ok, io) ==
    LET base_name == Stem(audio_file)
        md_file == create_smart_filename(fs, base_name \o "_accurate", ".md", FALSE)
        tech == TechnicalInfo(result)
        content == Content("detailed", Name(audio_file), Strip(result.text),
                           IF result.has_language THEN result.language ELSE "", tech)
    IN  IF ~stat_ok \/ ~result.has_text \/ tech.raised
        THEN [raised |-> TRUE, fs |-> fs, md_file |-> md_file]
        ELSE [raised |-> io # "ok", fs |-> WriteFile(fs, md_file, content, io),
              md_file |-> md_file]

\* ------------------------------------------------- transcribe_audio_file
simple_md_file(audio_file) == Stem(audio_file) \o ".md"
detailed_md_file(audio_file) == Stem(audio_file) \o "_accurate.md"

alreadyProcessed_either(fs, simple, detailed) == exists(fs, simple) \/ exists(fs, detailed)

alreadyProcessed_never(fs, simple, detailed) == FALSE

\* line 208: both reports exist.
alreadyProcessed(fs, simple, detailed) == exists(fs, simple) /\ exists(fs, detailed)

ShouldCreate_always(fs, md_file) == TRUE

\* lines 242 and 248: a report is created only if it does not exist.
ShouldCreate(fs, md_file) == ~exists(fs, md_file)

TryCovers_nothing(site) == FALSE

\* The try block spans lines 213-257: whisper.transcribe and the two
\* create_ calls are inside it, os.path.getsize at line 194 is before it.
TryCovers(site) == site \in {"transcribe", "create_simple", "create_detailed"}

\* An exception raised at site, the file system being fs: the handler of
\* lines 258-262 returns [], "" when the try block covers the site, and the
\* exception leaves transcribe_audio_file otherwise.
OnException(site, fs, calls) ==
    [propagated |-> ~TryCovers(site), status |-> "failed", fs |-> fs,
     created_files |-> <<>>, calls |-> calls]

\* transcribe_audio_file(audio_file, model, model_name).  stat_ok, whisper,
\* io_simple and io_detailed are what the environment does during the call.
\* Returns what the call did: the new file system, the list it returns, the
\* number of whisper.transcribe calls, and whether an exception left it.
transcribe_audio_file(fs, audio_file, stat_ok, whisper, io_simple, io_detailed) ==
    LET simple == simple_md_file(audio_file)
        detailed == detailed_md_file(audio_file)
        s1 == IF ShouldCreate(fs, simple)
              THEN create_simple_markdown(fs, audio_file, whisper.result, io_simple)
              ELSE [raised |-> FALSE, fs |-> fs, md_file |-> ""]
        created1 == IF ShouldCreate(fs, simple) THEN <<s1.md_file>> ELSE <<>>
        s2 == IF ShouldCreate(s1.fs, detailed)
              THEN create_detailed_markdown(s1.fs, audio_file, whisper.result,
                                            stat_ok, io_detailed)
              ELSE [raised |-> FALSE, fs |-> s1.fs, md_file |-> ""]
        created2 == IF ShouldCreate(s1.fs, detailed)
                    THEN Append(created1, s2.md_file) ELSE created1
    IN  IF ~stat_ok THEN OnException("getsize", fs, 0)
        ELSE IF alreadyProcessed(fs, simple, detailed)
        THEN [propagated |-> FALSE, status |-> "skipped", fs |-> fs,
              created_files |-> <<simple, detailed>>, calls |-> 0]
        ELSE IF whisper.raised THEN OnException("transcribe", fs, 1)
        ELSE IF s1.raised THEN OnException("create_simple", s1.fs, 1)
        ELSE IF s2.raised THEN OnException("create_detailed", s2.fs, 1)
        ELSE [propagated |-> FALSE, status |-> "ok", fs |-> s2.fs,
              created_files |-> created2, calls |-> 1]

\* ------------------------------------------------------------ the state
VARIABLES
    audio,              \* the audio files of the directory
    broken,             \* those whose size cannot be read (os.path.getsize raises)
    fs,                 \* the report files of the directory: name -> content
    pc,                 \* where main is
    run,                \* which run of main this is
    audio_files,        \* main: the list get_audio_files returned
    i,                  \* main: index of the next file of the loop of line 318
    all_created_files,  \* main: the list of line 311
    fs0,                \* history: fs when this run started
    prev_end,           \* history: how the run before this one ended
    outcome,            \* history: how the call of this run ended, for each file
    transcribed,        \* history: whisper.transcribe calls of this run, for each file
    last,               \* history: the latest transcribe_audio_file call of this run
    seconds,            \* rendering: the argument of format_duration
    rendered,           \* rendering: its value
    result_in,          \* rendering: the result given to create_detailed_markdown
    detailed_out        \* rendering: whether it raised, and the report it wrote

render_vars == <<seconds, rendered, result_in, detailed_out>>
vars ==
    <<audio, broken, fs, pc, run, audio_files, i, all_created_files,
      fs0, prev_end, outcome, transcribed, last,
      seconds, rendered, result_in, detailed_out>>

\* The names the reports of the files of dir have.
ReportNames(dir) ==
    {simple_md_file(f) : f \in dir} \cup {detailed_md_file(f) : f \in dir}

\* What whisper.transcribe does in the batch: it raises, or returns a result.
NoResult == Result(FALSE, "", FALSE, FALSE, <<>>)

BatchResults ==
    { Result(TRUE, " hi ", TRUE, TRUE, <<Segment(65, TRUE, -1)>>),
      NoResult }

WhisperOutcomes ==
    {[raised |-> TRUE, result |-> NoResult]}
        \cup {[raised |-> FALSE, result |-> r] : r \in BatchResults}

IoOutcomes == {"ok", "denied", "full"}

\* No file is opened after whisper.transcribe raised or returned no text.
IoFor(whisper) ==
    IF whisper.raised \/ ~whisper.result.has_text THEN {"ok"} ELSE IoOutcomes

\* The sets of reports a directory may hold before the first run: any of
\* the reports of one of its audio files (a later run starts from whatever
\* the runs before it left).
OldReportSets(dir) == {{}} \cup UNION {SUBSET ReportNames({f}) : f \in dir}

NoCall ==
    [file |-> "", had_simple |-> FALSE, had_detailed |-> FALSE, whisper_raised |-> FALSE,
     status |-> "none", propagated |-> FALSE, calls |-> 0,
     created_files |-> <<>>]

NoRender ==
    /\ seconds = 0
    /\ rendered = ""
    /\ result_in = NoResult
    /\ detailed_out = [raised |-> FALSE, content |-> OldContent]

Init ==
    /\ audio \in {d \in SUBSET AudioUniverse : Cardinality(d) <= MaxFiles}
    /\ broken \in {{}} \cup {{f} : f \in audio}
    /\ fs \in {[n \in D |-> OldContent] : D \in OldReportSets(audio)}
    /\ pc = "start"
    /\ run = 1
    /\ audio_files = <<>>
    /\ i = 1
    /\ all_created_files = <<>>
    /\ fs0 = fs
    /\ prev_end = "none"
    /\ outcome = [f \in audio |-> "pending"]
    /\ transcribed = [f \in audio |-> 0]
    /\ last = NoCall
    /\ NoRender

\* ------------------------------------------------------------------ main
\* --list-models: print the model names and return (lines 285-292).
MainListModels ==
    /\ pc = "start"
    /\ pc' = "listed"
    /\ UNCHANGED <<audio, broken, fs, run, audio_files, i, all_created_files,
                   fs0, prev_end, outcome, transcribed, last>>
    /\ UNCHANGED render_vars

\* No audio file is found: main returns (lines 297-301).
MainNoFiles ==
    /\ pc = "start"
    /\ audio = {}
    /\ audio_files' = <<>>
    /\ pc' = "nofiles"
    /\ UNCHANGED <<audio, broken, fs, run, i, all_created_files,
                   fs0, prev_end, outcome, transcribed, last>>
    /\ UNCHANGED render_vars

\* whisper.load_model raises (line 307): main ends with the exception.
MainLoadFails ==
    /\ pc = "start"
    /\ audio # {}
    /\ \E s \in get_audio_files(audio) : audio_files' = s
    /\ pc' = "load_failed"
    /\ UNCHANGED <<audio, broken, fs, run, i, all_created_files,
                   fs0, prev_end, outcome, transcribed, last>>
    /\ UNCHANGED render_vars

\* Lines 297-316: the files are discovered, the model is loaded, the lists
\* of the session are emptied.
MainBegin ==
    /\ pc = "start"
    /\ audio # {}
    /\ \E s \in get_audio_files(audio) : audio_files' = s
    /\ all_created_files' = <<>>
    /\ i' = 1
    /\ pc' = "loop"
    /\ UNCHANGED <<audio, broken, fs, run, fs0, prev_end, outcome, transcribed, last>>
    /\ UNCHANGED render_vars

\* What the history keeps of one call of transcribe_audio_file: the file,
\* which of its reports existed when it was called, whether whisper raised,
\* and what the call did.
Call(audio_file, whisper, r) ==
    [file |-> Name(audio_file),
     had_simple |-> exists(fs, simple_md_file(audio_file)),
     had_detailed |-> exists(fs, detailed_md_file(audio_file)),
     whisper_raised |-> r.calls > 0 /\ whisper.raised,
     status |-> r.status,
     propagated |-> r.propagated,
     calls |-> r.calls,
     created_files |-> r.created_files]

\* One iteration of the loop of lines 318-328: transcribe_audio_file on the
\* next file, then all_created_files.extend.  An exception that leaves
\* transcribe_audio_file leaves main too.
MainLoopIteration ==
    /\ pc = "loop"
    /\ i <= Len(audio_files)
    /\ \E whisper \in WhisperOutcomes :
       \E io_simple \in IoFor(whisper), io_detailed \in IoFor(whisper) :
          LET audio_file == audio_files[i]
              r == transcribe_audio_file(fs, audio_file, audio_file \notin broken,
                                         whisper, io_simple, io_detailed)
          IN  /\ fs' = r.fs
              /\ last' = Call(audio_file, whisper, r)
              /\ transcribed' = [transcribed EXCEPT ![audio_file] = @ + r.calls]
              /\ outcome' = [outcome EXCEPT ![audio_file] =
                                IF r.calls > 0 /\ whisper.raised THEN "whisper_raised"
                                ELSE r.status]
              /\ IF r.propagated
                 THEN /\ pc' = "aborted"
                      /\ UNCHANGED <<i, all_created_files>>
                 ELSE /\ pc' = "loop"
                      /\ i' = i + 1
                      /\ all_created_files' = all_created_files \o r.created_files
    /\ UNCHANGED <<audio, broken, run, audio_files, fs0, prev_end>>
    /\ UNCHANGED render_vars

\* Lines 330-350: the loop is over, the summary is printed.
MainSummary ==
    /\ pc = "loop"
    /\ i > Len(audio_files)
    /\ pc' = "summary"
    /\ UNCHANGED <<audio, broken, fs, run, audio_files, i, all_created_files,
                   fs0, prev_end, outcome, transcribed, last>>
    /\ UNCHANGED render_vars

\* The batch is over: main printed its summary, or an exception ended it.
BatchEnded == pc \in {"aborted", "summary"}

\* The script is started again over the same directory, after a batch.
RunAgain ==
    /\ BatchEnded
    /\ run < MaxRuns
    /\ run' = run + 1
    /\ pc' = "start"
    /\ audio_files' = <<>>
    /\ i' = 1
    /\ all_created_files' = <<>>
    /\ fs0' = fs
    /\ prev_end' = pc
    /\ outcome' = [f \in audio |-> "pending"]
    /\ transcribed' = [f \in audio |-> 0]
    /\ last' = NoCall
    /\ UNCHANGED <<audio, broken, fs>>
    /\ UNCHANGED render_vars

Next ==
    \/ MainListModels
    \/ MainNoFiles
    \/ MainLoadFails
    \/ MainBegin
    \/ MainLoopIteration
    \/ MainSummary
    \/ RunAgain

Spec == Init /\ [][Next]_vars

\* ------------------------------------------------------------- rendering
\* format_duration and create_detailed_markdown as functions of their
\* arguments: every whole number of seconds up to MaxSeconds, and every
\* result with at most MaxSegments segments.
SegmentEnds == {0, 59, 65, 3725}

Segments ==
    {Segment(e, TRUE, a) : e \in SegmentEnds, a \in {-1, -2}}
        \cup {Segment(e, FALSE, 0) : e \in SegmentEnds}

SegmentLists == UNION {[1..n -> Segments] : n \in 0..MaxSegments}

RenderResults ==
    {Result(TRUE, "hi", l, TRUE, segs) : l \in BOOLEAN, segs \in SegmentLists}
        \cup {Result(TRUE, "hi", l, FALSE, <<>>) : l \in BOOLEAN}

EmptyDirectory == [n \in {} |-> OldContent]

RenderInit ==
    /\ audio = {}
    /\ broken = {}
    /\ fs = EmptyDirectory
    /\ pc = "start"
    /\ run = 1
    /\ audio_files = <<>>
    /\ i = 1
    /\ all_created_files = <<>>
    /\ fs0 = fs
    /\ prev_end = "none"
    /\ outcome = [f \in audio |-> "pending"]
    /\ transcribed = [f \in audio |-> 0]
    /\ last = NoCall
    /\ NoRender

\* One call of format_duration.
FormatDurationCall ==
    /\ pc = "start"
    /\ pc' = "formatted"
    /\ \E t \in 0..MaxSeconds :
          /\ seconds' = t
          /\ rendered' = format_duration(t)
    /\ UNCHANGED <<result_in, detailed_out>>
    /\ UNCHANGED <<audio, broken, fs, run, audio_files, i, all_created_files, fs0,
                   prev_end, outcome, transcribed, last>>

\* One call of create_detailed_markdown, in a directory without reports.
CreateDetailedCall ==
    /\ pc = "start"
    /\ pc' = "rendered"
    /\ \E r \in RenderResults :
          LET audio_file == [stem |-> "a", ext |-> ".mp3"]
              d == create_detailed_markdown(EmptyDirectory, audio_file, r, TRUE, "ok")
          IN  /\ result_in' = r
              /\ detailed_out' = [raised |-> d.raised,
                                  content |-> IF d.raised THEN OldContent
                                              ELSE d.fs[d.md_file]]
    /\ UNCHANGED <<seconds, rendered>>
    /\ UNCHANGED <<audio, broken, fs, run, audio_files, i, all_created_files, fs0,
                   prev_end, outcome, transcribed, last>>

RenderNext == FormatDurationCall \/ CreateDetailedCall

SpecRender == RenderInit /\ [][RenderNext]_vars

\* ---------------------------------------------------------------- claims
\* A step of the loop of main that called transcribe_audio_file on
\* audio_files[i] and got its return value.
Returned == pc = "loop" /\ i <= Len(audio_files) /\ pc' = "loop" /\ i' = i + 1

\* A step of the loop of main that called transcribe_audio_file at all.
Called == pc = "loop" /\ i <= Len(audio_files) /\ (i' = i + 1 \/ pc' = "aborted")

BothReportsIn(dir, f) == exists(dir, simple_md_file(f)) /\ exists(dir, detailed_md_file(f))

\* The report files this run has created so far.
CreatedByRun == DOMAIN fs \ DOMAIN fs0

\* No other audio file of the directory has a report named like one of f.
NoSharedReport(f) ==
    \A g \in audio \ {f} : ReportNames({g}) \cap ReportNames({f}) = {}

\* C1: a call of transcribe_audio_file that reaches the existence check makes
\* no whisper.transcribe call when both reports of the file exist, and exactly
\* one, failed or not, when one of them is missing.
C1_TranscribeOnceUnlessBothExist ==
    [][Returned =>
         LET f == audio_files[i]
         IN  /\ last'.calls = IF BothReportsIn(fs, f) THEN 0 ELSE 1
             /\ transcribed'[f] = last'.calls]_vars

\* C1, its case: whisper.transcribe raised for a file with a missing report,
\* and the call returned after that single attempt.
C1_Witness ==
    /\ last.status = "failed"
    /\ last.whisper_raised
    /\ ~(last.had_simple /\ last.had_detailed)
    /\ last.calls = 1
    /\ ~last.propagated

\* C2, as stated: a run that follows a run that reached its summary, over
\* the same directory, makes no whisper.transcribe call and changes no report
\* that existed before it.
C2_SecondRunMakesNoCall ==
    run >= 2 /\ prev_end = "summary" =>
        /\ \A f \in audio : transcribed[f] = 0
        /\ \A n \in DOMAIN fs0 : n \in DOMAIN fs /\ fs[n] = fs0[n]

\* C2, amended: a run that follows another over the same directory makes no
\* whisper.transcribe call for a file whose two reports existed when it
\* started, and changes no report that existed when it started.
C2_SecondRunSkipsCompletedFiles ==
    run >= 2 =>
        /\ \A f \in audio : BothReportsIn(fs0, f) => transcribed[f] = 0
        /\ \A n \in DOMAIN fs0 : n \in DOMAIN fs /\ fs[n] = fs0[n]

\* C2, its case: the second run is over, and it skipped a file whose reports
\* the first run had rendered.
C2_Witness ==
    /\ run = 2
    /\ prev_end = "summary"
    /\ pc = "summary"
    /\ \E f \in audio :
          /\ outcome[f] = "skipped"
          /\ BothReportsIn(fs0, f)
          /\ fs0[simple_md_file(f)].kind = "simple"
          /\ fs0[detailed_md_file(f)].kind = "detailed"

\* C3: no step changes or removes a report that exists; and a successful call
\* for a file that had exactly one of its two reports creates the missing one
\* and nothing else.
C3_MissingReportOnly ==
    [][/\ \A n \in DOMAIN fs : n \in DOMAIN fs' /\ fs'[n] = fs[n]
       /\ Returned /\ last'.status = "ok" =>
            LET f == audio_files[i]
                had_simple == exists(fs, simple_md_file(f))
                had_detailed == exists(fs, detailed_md_file(f))
            IN  /\ had_simple /\ ~had_detailed =>
                    /\ DOMAIN fs' \ DOMAIN fs = {detailed_md_file(f)}
                    /\ fs'[detailed_md_file(f)].kind = "detailed"
                /\ ~had_simple /\ had_detailed =>
                    /\ DOMAIN fs' \ DOMAIN fs = {simple_md_file(f)}
                    /\ fs'[simple_md_file(f)].kind = "simple"]_vars

\* C3, its case: a successful call for a file that had one report only.
C3_Witness ==
    /\ last.status = "ok"
    /\ last.had_simple # last.had_detailed
    /\ Len(last.created_files) = 1

\* C4, as stated: whatever goes wrong with one file, the loop goes on to the
\* next file or to the summary.
C4_NoFileAbortsTheBatch ==
    [][pc = "loop" => pc' \in {"loop", "summary"}]_vars

C6_SkippedNotCountedAsCreated ==
    pc = "summary" =>
        \A f \in audio :
            outcome[f] = "skipped" =>
                \A k \in 1..Len(all_created_files) :
                    all_created_files[k] \notin ReportNames({f})

\* C7: every file a call of transcribe_audio_file creates, and every name it
\* returns, is <stem>.md or <stem>_accurate.md of its audio file, and the two
\* names differ.
C7_ReportNamesAreFixed ==
    [][Called =>
         LET f == audio_files[i]
             names == {Stem(f) \o ".md", Stem(f) \o "_accurate.md"}
         IN  /\ DOMAIN fs' \ DOMAIN fs \subseteq names
             /\ \A k \in 1..Len(last'.created_files) : last'.created_files[k] \in names
             /\ Cardinality(names) = 2]_vars

\* C7, its case: a call that wrote both reports, in a second run.
C7_Witness ==
    /\ run = 2
    /\ last.status = "ok"
    /\ Len(last.created_files) = 2
    /\ \A k \in 1..2 : last.created_files[k] \in CreatedByRun

\* C8: create_detailed_markdown does not raise, whatever the segments of the
\* result; without segments (no key, or an empty list) it reports the duration
\* and the mean confidence as unknown and 0 segments; with segments, the
\* duration is the formatted end of the last one and the confidence the sum of
\* the avg_logprob values, 0 for a missing one, over the number of segments.
C8_DetailedTechnicalInformation ==
    pc = "rendered" =>
        LET segs == IF result_in.has_segments THEN result_in.segments ELSE <<>>
            c == detailed_out.content
        IN  /\ ~detailed_out.raised
            /\ c.kind = "detailed"
            /\ segs = <<>> =>
                 /\ c.duration = "Neizvestno"
                 /\ c.confidence = "Neizvestno"
                 /\ c.count = 0
            /\ segs # <<>> =>
                 /\ c.duration = format_duration(segs[Len(segs)].end)
                 /\ c.confidence =
                        ToString(SumAvgLogprob(segs)) \o "/" \o ToString(Len(segs))
                 /\ c.count = Len(segs)

\* C8, its case: a result whose list of segments is empty was rendered.
C8_Witness ==
    /\ pc = "rendered"
    /\ result_in.has_segments
    /\ result_in.segments = <<>>
    /\ ~detailed_out.raised
    /\ detailed_out.content.confidence = "Neizvestno"

\* C9: format_duration(t) shows t div 3600 hours only if that is positive,
\* (t mod 3600) div 60 minutes only if that or the hours are positive, and
\* always t mod 60 seconds; 65 seconds are "1m 5s".
C9_FormatDuration ==
    pc = "formatted" =>
        LET h == seconds \div 3600
            m == (seconds % 3600) \div 60
            s == seconds % 60
        IN  /\ rendered = (IF h > 0 THEN ToString(h) \o "ch " ELSE "")
                            \o (IF m > 0 \/ h > 0 THEN ToString(m) \o "m " ELSE "")
                            \o ToString(s) \o "s"
            /\ seconds = 65 => rendered = "1m 5s"

\* C9, its case: 65 seconds were formatted.
C9_Witness == pc = "formatted" /\ seconds = 65 /\ rendered = "1m 5s"

\* C10, as stated: a run that starts without reports and in which nothing
\* fails ends with both reports of every audio file, rendered from that file.
C10_EveryFileGetsItsOwnReports ==
    (/\ pc = "summary"
     /\ DOMAIN fs0 = {}
     /\ \A f \in audio : outcome[f] \in {"ok", "skipped"}) =>
        \A f \in audio :
            /\ BothReportsIn(fs, f)
            /\ fs[simple_md_file(f)].kind = "simple"
            /\ fs[simple_md_file(f)].audio_file = Name(f)
            /\ fs[detailed_md_file(f)].kind = "detailed"
            /\ fs[detailed_md_file(f)].audio_file = Name(f)

====
